---- MODULE Spec2Model ----
(***************************************************************************)
(* Validator / machine apportionment of scripts/split-calculator-simple.py *)
(* (fixed machine counts, largest remainder) and of                        *)
(* scripts/split-calculator.py (machine shares, threshold rounding).       *)
(*                                                                         *)
(* Python floats are modelled as exact rationals with a fixed denominator: *)
(* a share 0.25 is the integer 25 over Scale, a product of two shares is   *)
(* an integer over Scale^2, and so on.  int() and round() are computed on  *)
(* numerator and denominator (truncation, round-half-to-even).             *)
(***************************************************************************)
EXTENDS Integers, Sequences, FiniteSets, TLC

VARIABLES
    script,                  \* "simple" (split-calculator-simple.py) or "threshold" (split-calculator.py)
    TOTAL_VALIDATORS,
    MACHINE_COUNTS,          \* simple: machines per node type
    MACHINE_DISTRIBUTION,    \* threshold: machine share per node type, in 1/Scale
    CL_CLIENTS,              \* sequence (dict order) of [name, pct], pct in 1/Scale
    EL_CLIENTS,
    VALIDATOR_DISTRIBUTION,  \* validator share per node type, in 1/Scale
    allocations,             \* list built by calculate_allocations
    rounded_allocations,     \* threshold: list returned by apply_intelligent_rounding
    output,                  \* blocks emitted by generate_output / generate_terraform_output
    total_allocated,         \* threshold: what print_analysis returned
    warning,                 \* threshold: main printed its WARNING line
    pc                       \* position in main

config == <<script, TOTAL_VALIDATORS, MACHINE_COUNTS, MACHINE_DISTRIBUTION,
            CL_CLIENTS, EL_CLIENTS, VALIDATOR_DISTRIBUTION>>
vars == <<script, TOTAL_VALIDATORS, MACHINE_COUNTS, MACHINE_DISTRIBUTION,
          CL_CLIENTS, EL_CLIENTS, VALIDATOR_DISTRIBUTION,
          allocations, rounded_allocations, output, total_allocated, warning, pc>>

\* A share of 1.0
Scale == 100
Scale2 == Scale * Scale

NODE_TYPES == <<"default", "full", "super">>
NodeTypeSet == {"default", "full", "super"}

BASE_VALIDATORS_PER_MACHINE == 255

(***************************************************************************)
(* Python built-ins on rationals n/d with d > 0                            *)
(***************************************************************************)
\* int(n/d): truncation toward zero
PyInt(n, d) == IF n >= 0 THEN n \div d ELSE -((-n) \div d)

\* round(n/d): round half to even
PyRound(n, d) ==
    LET a == IF n >= 0 THEN n ELSE -n
        q == a \div d
        r == a % d
        m == IF 2 * r > d THEN q + 1
             ELSE IF 2 * r < d THEN q
             ELSE IF q % 2 = 0 THEN q ELSE q + 1
    IN  IF n >= 0 THEN m ELSE -m

\* sum(...) of a list of integers
RECURSIVE SumRange(_, _, _)
SumRange(s, lo, hi) ==
    IF lo > hi THEN 0
    ELSE IF lo = hi THEN s[lo]
    ELSE LET mid == (lo + hi) \div 2
         IN  SumRange(s, lo, mid) + SumRange(s, mid + 1, hi)

SumSeq(s) == SumRange(s, 1, Len(s))

\* sorted(..., reverse=True) on integer keys: the stable descending order,
\* as the sequence of the original indices.
SortedDesc(keys) ==
    LET n == Len(keys)
        before(i, j) == keys[i] > keys[j] \/ (keys[i] = keys[j] /\ i < j)
        rank(i) == Cardinality({j \in 1..n : before(j, i)}) + 1
    IN  [k \in 1..n |-> CHOOSE i \in 1..n : rank(i) = k]

Permute(s, order) == [k \in 1..Len(order) |-> s[order[k]]]

\* The elements of s from index i on that satisfy the test given as a set
\* of kept indices, in their order in s.
KeepIdx(s, keep, i) ==
    LET kept == {j \in keep : j >= i /\ j <= Len(s)}
    IN  [k \in 1..Cardinality(kept) |->
            s[CHOOSE j \in kept : Cardinality({h \in kept : h < j}) = k - 1]]

\* Python's < on the client and node-type names the tables use.
NameRank(name) ==
    CASE name = "besu" -> 1
      [] name = "default" -> 2
      [] name = "erigon" -> 3
      [] name = "ethereumjs" -> 4
      [] name = "full" -> 5
      [] name = "geth" -> 6
      [] name = "grandine" -> 7
      [] name = "lighthouse" -> 8
      [] name = "lodestar" -> 9
      [] name = "nethermind" -> 10
      [] name = "nimbus" -> 11
      [] name = "nimbusel" -> 12
      [] name = "prysm" -> 13
      [] name = "reth" -> 14
      [] name = "super" -> 15
      [] name = "teku" -> 16

(***************************************************************************)
(* split-calculator-simple.py                                              *)
(***************************************************************************)
\* validators_by_type[node_type]
ValidatorsByType(total, vd, node_type) == PyInt(total * vd[node_type], Scale)

\* combination_machines of one node type, in dict (insertion) order; ideal
\* is the numerator of ideal_machines over Scale2.
CombinationMachines(type_machines, cl, el) ==
    [k \in 1..(Len(cl) * Len(el)) |->
        LET i == ((k - 1) \div Len(el)) + 1
            j == ((k - 1) % Len(el)) + 1
        IN  [cl |-> cl[i].name, el |-> el[j].name,
             weight |-> cl[i].pct * el[j].pct,
             ideal |-> type_machines * cl[i].pct * el[j].pct]]

\* sorted_combinations: by ideal machine count, descending
SortedCombinations(type_machines, cl, el) ==
    LET cm == CombinationMachines(type_machines, cl, el)
    IN  Permute(cm, SortedDesc([k \in 1..Len(cm) |-> cm[k].ideal]))

\* AwardedExtra with the remainders sorted ascending (reverse=False)
AwardedExtraAscending(sc, type_machines) ==
    LET first_pass_asc == SumSeq([k \in 1..Len(sc) |-> PyInt(sc[k].ideal, Scale2)])
        remaining == type_machines - first_pass_asc
        remainders == SortedDesc([k \in 1..Len(sc) |->
                                     -(sc[k].ideal - PyInt(sc[k].ideal, Scale2) * Scale2)])
    IN  IF remaining > 0
        THEN {remainders[i] : i \in {i \in 1..remaining : i <= Len(remainders)}}
        ELSE {}

\* AwardedExtra with the second pass one award short: range(remaining - 1)
AwardedExtraShort(sc, type_machines) ==
    LET first_pass_short == SumSeq([k \in 1..Len(sc) |-> PyInt(sc[k].ideal, Scale2)])
        remaining == type_machines - first_pass_short
        remainders == SortedDesc([k \in 1..Len(sc) |->
                                     sc[k].ideal - PyInt(sc[k].ideal, Scale2) * Scale2])
    IN  IF remaining > 0
        THEN {remainders[i] : i \in {i \in 1..(remaining - 1) : i <= Len(remainders)}}
        ELSE {}

\* The indices (into sorted_combinations) that the second pass awards one
\* more machine: the first `remaining` of the list sorted by remainder.
AwardedExtra(sc, type_machines) ==
    LET first_pass == SumSeq([k \in 1..Len(sc) |-> PyInt(sc[k].ideal, Scale2)])
        remaining == type_machines - first_pass
        remainders == SortedDesc([k \in 1..Len(sc) |->
                                     sc[k].ideal - PyInt(sc[k].ideal, Scale2) * Scale2])
    IN  IF remaining > 0
        THEN {remainders[i] : i \in {i \in 1..remaining : i <= Len(remainders)}}
        ELSE {}

\* AllocatedMachines with the first pass only (no largest-remainder awards)
AllocatedMachinesFloorOnly(type_machines, cl, el) ==
    LET sc == SortedCombinations(type_machines, cl, el)
    IN  [k \in 1..Len(sc) |->
            [cl |-> sc[k].cl, el |-> sc[k].el, weight |-> sc[k].weight,
             machines |-> PyInt(sc[k].ideal, Scale2)]]

\* allocated_machines, in the order of sorted_combinations
AllocatedMachines(type_machines, cl, el) ==
    LET sc == SortedCombinations(type_machines, cl, el)
        extra == AwardedExtra(sc, type_machines)
    IN  [k \in 1..Len(sc) |->
            [cl |-> sc[k].cl, el |-> sc[k].el, weight |-> sc[k].weight,
             machines |-> PyInt(sc[k].ideal, Scale2) + (IF k \in extra THEN 1 ELSE 0)]]

\* The NodeAllocations one node type appends
TypeAllocations(node_type, type_machines, type_validators, cl, el) ==
    IF type_machines = 0 THEN <<>>
    ELSE
        LET am == AllocatedMachines(type_machines, cl, el)
            all == [k \in 1..Len(am) |->
                       [cl_name |-> am[k].cl, el_name |-> am[k].el,
                        node_type |-> node_type,
                        machines |-> am[k].machines,
                        validators |-> PyInt(type_validators * am[k].weight, Scale2)]]
        IN  KeepIdx(all, {k \in 1..Len(am) : am[k].machines > 0}, 1)

\* calculate_allocations()
SimpleCalculateAllocations(total, mc, cl, el, vd) ==
    LET of(t) == TypeAllocations(t, mc[t], ValidatorsByType(total, vd, t), cl, el)
    IN  of("default") \o of("full") \o of("super")

\* by_type[node_type]
ByType(allocs, node_type) ==
    KeepIdx(allocs, {k \in 1..Len(allocs) : allocs[k].node_type = node_type}, 1)

\* max(type_allocations, key=machines): index of the first maximum
Largest(ta) ==
    CHOOSE i \in 1..Len(ta) :
        /\ \A j \in 1..Len(ta) : ta[j].machines <= ta[i].machines
        /\ \A j \in 1..(i - 1) : ta[j].machines < ta[i].machines

\* OptimizeType without the residual correction on the largest allocation
OptimizeTypeNoResidual(ta, target_validators) ==
    LET current == SumSeq([k \in 1..Len(ta) |-> ta[k].validators])
        diff == target_validators - current
        total_machines == SumSeq([k \in 1..Len(ta) |-> ta[k].machines])
    IN  IF ta = <<>> \/ current = target_validators THEN ta
        ELSE [k \in 1..Len(ta) |->
                 [ta[k] EXCEPT !.validators =
                     @ + PyRound(diff * ta[k].machines, total_machines)]]

\* The body of optimize_validator_distribution's loop for one node type
OptimizeType(ta, target_validators) ==
    LET current_validators == SumSeq([k \in 1..Len(ta) |-> ta[k].validators])
        diff == target_validators - current_validators
        total_machines == SumSeq([k \in 1..Len(ta) |-> ta[k].machines])
        adjusted == [k \in 1..Len(ta) |->
                        [ta[k] EXCEPT !.validators =
                            @ + PyRound(diff * ta[k].machines, total_machines)]]
        final_diff == target_validators
                        - SumSeq([k \in 1..Len(ta) |-> adjusted[k].validators])
    IN  IF ta = <<>> \/ current_validators = target_validators THEN ta
        ELSE IF final_diff # 0
             THEN [adjusted EXCEPT ![Largest(ta)].validators = @ + final_diff]
             ELSE adjusted

\* optimize_validator_distribution(allocations): the list keeps its order,
\* each element is updated in place.
OptimizeValidatorDistribution(allocs, total, vd) ==
    LET ot(t) == OptimizeType(ByType(allocs, t), ValidatorsByType(total, vd, t))
        \* position of allocs[k] inside its by_type list
        pos(k) == Cardinality({j \in 1..k : allocs[j].node_type = allocs[k].node_type})
    IN  [k \in 1..Len(allocs) |-> ot(allocs[k].node_type)[pos(k)]]

(***************************************************************************)
(* Output renderer (both scripts)                                          *)
(***************************************************************************)
\* allocations.sort(key=(cl_name, el_name, node_type)): ascending, stable
SortKey(a) == (NameRank(a.cl_name) * 32 + NameRank(a.el_name)) * 32 + NameRank(a.node_type)

SortForOutput(allocs) ==
    Permute(allocs, SortedDesc([k \in 1..Len(allocs) |-> -SortKey(allocs[k])]))

\* The guard of the renderer's `continue`: generate_output tests
\* validators <= 0, generate_terraform_output tests validators < 1.
Skipped(a, s) ==
    IF s = "simple" THEN a.machines = 0 \/ a.validators <= 0
    ELSE a.machines = 0 \/ a.validators < 1

\* EmitBlocks that advances the running total past a skipped allocation
EmitBlocksGap(sorted, validator_start, s) ==
    LET kept == {k \in 1..Len(sorted) : ~Skipped(sorted[k], s)}
        start(k) == validator_start
                      + SumSeq([j \in 1..(k - 1) |-> sorted[j].validators])
        blocks == [k \in 1..Len(sorted) |->
                      [cl_name |-> sorted[k].cl_name, el_name |-> sorted[k].el_name,
                       node_type |-> sorted[k].node_type, count |-> sorted[k].machines,
                       validator_start |-> start(k),
                       validator_end |-> start(k) + sorted[k].validators]]
    IN  KeepIdx(blocks, kept, 1)

\* The loop over the sorted allocations, from running total validator_start:
\* the total a block starts at is the validators of the allocations emitted
\* before it.
EmitBlocks(sorted, validator_start, s) ==
    LET kept == {k \in 1..Len(sorted) : ~Skipped(sorted[k], s)}
        start(k) == validator_start
                      + SumSeq([j \in 1..(k - 1) |->
                                   IF j \in kept THEN sorted[j].validators ELSE 0])
        blocks == [k \in 1..Len(sorted) |->
                      [cl_name |-> sorted[k].cl_name, el_name |-> sorted[k].el_name,
                       node_type |-> sorted[k].node_type, count |-> sorted[k].machines,
                       validator_start |-> start(k),
                       validator_end |-> start(k) + sorted[k].validators]]
    IN  KeepIdx(blocks, kept, 1)

\* generate_output(allocations)
GenerateOutput(allocs) == EmitBlocks(SortForOutput(allocs), 0, "simple")

\* generate_terraform_output(allocations)
GenerateTerraformOutput(allocs) == EmitBlocks(SortForOutput(allocs), 0, "threshold")

(***************************************************************************)
(* split-calculator.py: floats as normalised fractions <<n, d>>, d > 0     *)
(***************************************************************************)
RECURSIVE GCD(_, _)
GCD(a, b) == IF b = 0 THEN a ELSE GCD(b, a % b)

Abs(n) == IF n >= 0 THEN n ELSE -n

\* n/d in lowest terms
Frac(n, d) == LET g == GCD(Abs(n), d) IN <<n \div g, d \div g>>

\* r * (a/b), b > 0, cancelling before multiplying
Times(r, a, b) ==
    LET g1 == GCD(Abs(r[1]), b)
        g2 == GCD(Abs(a), r[2])
        h1 == IF g1 = 0 THEN 1 ELSE g1
        h2 == IF g2 = 0 THEN 1 ELSE g2
    IN  Frac((r[1] \div h1) * (a \div h2), (r[2] \div h2) * (b \div h1))

Less(r, q) == r[1] * q[2] < q[1] * r[2]

\* sorted(..., reverse=True) / list.sort(reverse=True) on fraction keys
SortedDescFrac(keys) ==
    LET n == Len(keys)
        before(i, j) == Less(keys[j], keys[i]) \/ (keys[i] = keys[j] /\ i < j)
        rank(i) == Cardinality({j \in 1..n : before(j, i)}) + 1
    IN  [k \in 1..n |-> CHOOSE i \in 1..n : rank(i) = k]

\* total_machines = TOTAL_VALIDATORS / BASE_VALIDATORS_PER_MACHINE
TotalMachines(total) == Frac(total, BASE_VALIDATORS_PER_MACHINE)

\* calculate_allocations(): the fractional allocations, CL-major, then EL,
\* then node type.
ThresholdCalculateAllocations(total, md, cl, el, vd) ==
    [k \in 1..(Len(cl) * Len(el) * 3) |->
        LET i == ((k - 1) \div (Len(el) * 3)) + 1
            j == (((k - 1) \div 3) % Len(el)) + 1
            t == NODE_TYPES[((k - 1) % 3) + 1]
            base_validators ==
                Times(Times(Frac(total, 1), cl[i].pct, Scale), el[j].pct, Scale)
            base_machines ==
                Times(Times(TotalMachines(total), cl[i].pct, Scale), el[j].pct, Scale)
        IN  [cl_name |-> cl[i].name, el_name |-> el[j].name, node_type |-> t,
             validators |-> Times(base_validators, vd[t], Scale),
             machines |-> Times(base_machines, md[t], Scale)]]

\* The division of lines 101-104 raises ZeroDivisionError when a node type
\* has a positive machine share and total_machines is 0.
DividesByZero(total, md) == total = 0 /\ \E t \in NodeTypeSet : md[t] > 0

\* target_machines = round(total_machines * MACHINE_DISTRIBUTION[node_type])
TargetMachines(total, md, node_type) ==
    LET r == Times(TotalMachines(total), md[node_type], Scale)
    IN  PyRound(r[1], r[2])

\* type_allocations.sort(key=machines, reverse=True)
SortedTypeAllocations(ta) ==
    Permute(ta, SortedDescFrac([k \in 1..Len(ta) |-> ta[k].machines]))

\* target_machines <= 10: one machine to each of the top allocations
SmallAssignments(ta, target_machines) ==
    [i \in 1..Len(ta) |->
        [alloc |-> ta[i], machines |-> IF i - 1 < target_machines THEN 1 ELSE 0]]

\* The rounding threshold of a node type, as a fraction
Threshold(node_type) == IF node_type = "default" THEN <<4, 10>> ELSE <<7, 10>>

\* Standard rounding of one allocation
ThresholdMachines(alloc) ==
    IF ~Less(alloc.machines, Threshold(alloc.node_type))
    THEN LET r == PyRound(alloc.machines[1], alloc.machines[2])
         IN  IF r > 1 THEN r ELSE 1
    ELSE 0

\* diff > 0: add one machine to the largest allocations without one
RECURSIVE TopUp(_, _, _)
TopUp(ma, i, diff) ==
    IF i > Len(ma) \/ diff <= 0 THEN ma
    ELSE IF Less(<<20, 1>>, ma[i].alloc.validators) /\ ma[i].machines = 0
         THEN TopUp([ma EXCEPT ![i].machines = 1], i + 1, diff - 1)
         ELSE TopUp(ma, i + 1, diff)

\* diff < 0: take the machines of the smallest allocations away
RECURSIVE TrimDown(_, _, _)
TrimDown(ma, i, diff) ==
    IF i < 1 \/ diff >= 0 THEN ma
    ELSE IF ma[i].machines > 0 /\ Less(ma[i].alloc.validators, <<50, 1>>)
         THEN TrimDown([ma EXCEPT ![i].machines = 0], i - 1, diff + 1)
         ELSE TrimDown(ma, i - 1, diff)

\* target_machines > 10: threshold rounding, then the adjustment to the target
StandardAssignments(ta, target_machines) ==
    LET ma == [i \in 1..Len(ta) |-> [alloc |-> ta[i], machines |-> ThresholdMachines(ta[i])]]
        total_assigned == SumSeq([i \in 1..Len(ma) |-> ma[i].machines])
        diff == target_machines - total_assigned
    IN  IF diff > 0 THEN TopUp(ma, 1, diff)
        ELSE IF diff < 0 THEN TrimDown(ma, Len(ma), diff)
        ELSE ma

\* machine_assignments of one node type
MachineAssignments(ta, target_machines) ==
    IF target_machines <= 10
    THEN SmallAssignments(ta, target_machines)
    ELSE StandardAssignments(ta, target_machines)

\* orphaned_validators: int(validators) of the allocations without a machine
OrphanedValidators(ma) ==
    SumSeq([i \in 1..Len(ma) |->
               IF ma[i].machines > 0 THEN 0
               ELSE PyInt(ma[i].alloc.validators[1], ma[i].alloc.validators[2])])

\* final_type_allocations before the orphans are redistributed
Survivors(ma) ==
    KeepIdx([i \in 1..Len(ma) |->
                [cl_name |-> ma[i].alloc.cl_name, el_name |-> ma[i].alloc.el_name,
                 node_type |-> ma[i].alloc.node_type,
                 validators |-> PyInt(ma[i].alloc.validators[1], ma[i].alloc.validators[2]),
                 machines |-> ma[i].machines]],
            {i \in 1..Len(ma) : ma[i].machines > 0}, 1)

\* Redistribute without the remainder handed to the first allocation
RedistributeNoRemainder(fta, orphaned_validators) ==
    IF orphaned_validators > 0 /\ fta # <<>>
    THEN LET per == PyInt(orphaned_validators, Len(fta))
         IN  [i \in 1..Len(fta) |-> [fta[i] EXCEPT !.validators = @ + per]]
    ELSE fta

\* Redistribution of the orphaned validators over final_type_allocations
Redistribute(fta, orphaned_validators) ==
    IF orphaned_validators > 0 /\ fta # <<>>
    THEN LET per == PyInt(orphaned_validators, Len(fta))
             remainder == orphaned_validators - per * Len(fta)
         IN  [i \in 1..Len(fta) |->
                 [fta[i] EXCEPT !.validators =
                     @ + per + (IF i = 1 /\ remainder > 0 THEN remainder ELSE 0)]]
    ELSE fta

\* final_type_allocations of one node type
FinalTypeAllocations(allocs, node_type, target_machines) ==
    LET ma == MachineAssignments(SortedTypeAllocations(ByType(allocs, node_type)),
                                 target_machines)
    IN  Redistribute(Survivors(ma), OrphanedValidators(ma))

\* apply_intelligent_rounding(allocations, total_machines)
ApplyIntelligentRounding(allocs, total, md) ==
    LET of(t) == FinalTypeAllocations(allocs, t, TargetMachines(total, md, t))
    IN  of("default") \o of("full") \o of("super")

\* print_analysis's return value: the validators of the allocations listed
TotalAllocated(allocs) ==
    SumSeq([k \in 1..Len(allocs) |->
               IF allocs[k].machines > 0 THEN allocs[k].validators ELSE 0])

\* main's check after the output
WarningPrinted(allocated, total) == Abs(allocated - total) > 10

(***************************************************************************)
(* Configurations                                                          *)
(***************************************************************************)
CL_NAMES == <<"prysm", "lighthouse", "teku", "lodestar", "nimbus", "grandine">>
EL_NAMES == <<"geth", "nethermind", "ethereumjs", "reth", "besu", "erigon", "nimbusel">>

Table(names, pcts) == [i \in 1..Len(pcts) |-> [name |-> names[i], pct |-> pcts[i]]]

\* The tables as the scripts configure them
SimpleCL == Table(CL_NAMES, <<25, 25, 20, 10, 10, 10>>)
SimpleEL == Table(EL_NAMES, <<50, 25, 1, 8, 8, 7, 1>>)
ThresholdCL == Table(CL_NAMES, <<25, 25, 20, 10, 10, 10>>)
ThresholdEL == Table(EL_NAMES, <<45, 30, 1, 8, 8, 7, 1>>)
ConfiguredValidatorDistribution == [default |-> 70, full |-> 20, super |-> 10]
ConfiguredMachineCounts == [default |-> 32, full |-> 6, super |-> 2]
ConfiguredMachineDistribution == [default |-> 80, full |-> 15, super |-> 5]
ConfiguredTotal == 15000

NoMachineCounts == [default |-> 0, full |-> 0, super |-> 0]
NoMachineDistribution == [default |-> 0, full |-> 0, super |-> 0]

\* Bounds of the explored configurations
MaxMachines == 6
MaxValidators == 4

\* Share vectors of the explored client tables (each sums to Scale)
ShareVectors ==
    { <<100>>, <<50, 50>>, <<0, 100>>,
      <<25, 25, 50>>, <<40, 30, 30>>, <<20, 30, 50>> }

ValidatorDistributions ==
    { ConfiguredValidatorDistribution,
      [default |-> 100, full |-> 0, super |-> 0] }

Totals == (1..MaxValidators) \cup {ConfiguredTotal}

\* Machine counts of a fleet of at most MaxMachines machines
MachineCounts ==
    { mc \in [NodeTypeSet -> 0..MaxMachines] :
        mc["default"] + mc["full"] + mc["super"] <= MaxMachines }

ValidTable(t) == /\ \A i \in 1..Len(t) : t[i].pct >= 0 /\ t[i].pct <= Scale
                 /\ SumSeq([i \in 1..Len(t) |-> t[i].pct]) = Scale
ValidShares(d) == /\ \A t \in NodeTypeSet : d[t] >= 0 /\ d[t] <= Scale
                  /\ d["default"] + d["full"] + d["super"] = Scale

\* The configuration is well formed (shares in [0,1] summing to 1, a
\* positive total)
ValidConfig ==
    /\ TOTAL_VALIDATORS > 0
    /\ ValidTable(CL_CLIENTS) /\ ValidTable(EL_CLIENTS)
    /\ ValidShares(VALIDATOR_DISTRIBUTION)
    /\ script = "threshold" => ValidShares(MACHINE_DISTRIBUTION)

IsConfigured ==
    /\ script = "simple"
    /\ TOTAL_VALIDATORS = ConfiguredTotal
    /\ MACHINE_COUNTS = ConfiguredMachineCounts
    /\ CL_CLIENTS = SimpleCL /\ EL_CLIENTS = SimpleEL
    /\ VALIDATOR_DISTRIBUTION = ConfiguredValidatorDistribution

(***************************************************************************)
(* main() of split-calculator-simple.py                                    *)
(***************************************************************************)
Start ==
    /\ allocations = <<>> /\ rounded_allocations = <<>>
    /\ output = <<>> /\ total_allocated = 0 /\ warning = FALSE /\ pc = "main"

Init ==
    /\ script = "simple"
    /\ MACHINE_DISTRIBUTION = NoMachineDistribution
    /\ \/ /\ TOTAL_VALIDATORS \in Totals
          /\ MACHINE_COUNTS \in MachineCounts
          /\ CL_CLIENTS \in {Table(CL_NAMES, w) : w \in ShareVectors}
          /\ EL_CLIENTS \in {Table(EL_NAMES, w) : w \in ShareVectors}
          /\ VALIDATOR_DISTRIBUTION \in ValidatorDistributions
       \/ /\ TOTAL_VALIDATORS = ConfiguredTotal
          /\ MACHINE_COUNTS = ConfiguredMachineCounts
          /\ CL_CLIENTS = SimpleCL /\ EL_CLIENTS = SimpleEL
          /\ VALIDATOR_DISTRIBUTION = ConfiguredValidatorDistribution
    /\ Start

\* allocations = calculate_allocations()
CalculateAllocations ==
    /\ script = "simple" /\ pc = "main"
    /\ allocations' = SimpleCalculateAllocations(TOTAL_VALIDATORS, MACHINE_COUNTS,
                          CL_CLIENTS, EL_CLIENTS, VALIDATOR_DISTRIBUTION)
    /\ pc' = "calculated"
    /\ UNCHANGED <<config, rounded_allocations, output, total_allocated, warning>>

\* allocations = optimize_validator_distribution(allocations)
Optimize ==
    /\ script = "simple" /\ pc = "calculated"
    /\ allocations' = OptimizeValidatorDistribution(allocations, TOTAL_VALIDATORS,
                          VALIDATOR_DISTRIBUTION)
    /\ pc' = "optimized"
    /\ UNCHANGED <<config, rounded_allocations, output, total_allocated, warning>>

\* print_summary(allocations); output = generate_output(allocations): the
\* list is sorted in place and the blocks are printed.
Output ==
    /\ script = "simple" /\ pc = "optimized"
    /\ allocations' = SortForOutput(allocations)
    /\ output' = GenerateOutput(allocations)
    /\ pc' = "done"
    /\ UNCHANGED <<config, rounded_allocations, total_allocated, warning>>

Next == CalculateAllocations \/ Optimize \/ Output

Spec == Init /\ [][Next]_vars

(***************************************************************************)
(* main() of split-calculator.py                                           *)
(***************************************************************************)
MachineDistributions ==
    { ConfiguredMachineDistribution,
      [default |-> 100, full |-> 0, super |-> 0],
      [default |-> 50, full |-> 50, super |-> 0] }

\* Totals that make total_machines 1 .. MaxMachines, and the configured one
ThresholdTotals ==
    {BASE_VALIDATORS_PER_MACHINE * k : k \in 1..MaxMachines}
        \cup {BASE_VALIDATORS_PER_MACHINE * 12, ConfiguredTotal}

InitThreshold ==
    /\ script = "threshold"
    /\ MACHINE_COUNTS = NoMachineCounts
    /\ \/ /\ TOTAL_VALIDATORS \in ThresholdTotals
          /\ MACHINE_DISTRIBUTION \in MachineDistributions
          /\ CL_CLIENTS \in {Table(CL_NAMES, w) : w \in ShareVectors}
          /\ EL_CLIENTS \in {Table(EL_NAMES, w) : w \in ShareVectors}
          /\ VALIDATOR_DISTRIBUTION \in ValidatorDistributions
       \/ /\ TOTAL_VALIDATORS = ConfiguredTotal
          /\ MACHINE_DISTRIBUTION = ConfiguredMachineDistribution
          /\ CL_CLIENTS = ThresholdCL /\ EL_CLIENTS = ThresholdEL
          /\ VALIDATOR_DISTRIBUTION = ConfiguredValidatorDistribution
    /\ Start

\* allocations, validators_per_machine = calculate_allocations()
ThresholdCalculate ==
    /\ script = "threshold" /\ pc = "main"
    /\ ~DividesByZero(TOTAL_VALIDATORS, MACHINE_DISTRIBUTION)
    /\ allocations' = ThresholdCalculateAllocations(TOTAL_VALIDATORS,
                          MACHINE_DISTRIBUTION, CL_CLIENTS, EL_CLIENTS,
                          VALIDATOR_DISTRIBUTION)
    /\ pc' = "calculated"
    /\ UNCHANGED <<config, rounded_allocations, output, total_allocated, warning>>

\* calculate_allocations() raises ZeroDivisionError: main ends, nothing printed
ThresholdCalculateRaises ==
    /\ script = "threshold" /\ pc = "main"
    /\ DividesByZero(TOTAL_VALIDATORS, MACHINE_DISTRIBUTION)
    /\ pc' = "error"
    /\ UNCHANGED <<config, allocations, rounded_allocations, output,
                   total_allocated, warning>>

\* rounded_allocations = apply_intelligent_rounding(allocations, total_machines)
ApplyRounding ==
    /\ script = "threshold" /\ pc = "calculated"
    /\ rounded_allocations' = ApplyIntelligentRounding(allocations,
                                  TOTAL_VALIDATORS, MACHINE_DISTRIBUTION)
    /\ pc' = "rounded"
    /\ UNCHANGED <<config, allocations, output, total_allocated, warning>>

\* total_allocated = print_analysis(rounded_allocations, validators_per_machine)
PrintAnalysis ==
    /\ script = "threshold" /\ pc = "rounded"
    /\ total_allocated' = TotalAllocated(rounded_allocations)
    /\ pc' = "analysed"
    /\ UNCHANGED <<config, allocations, rounded_allocations, output, warning>>

\* terraform_output = generate_terraform_output(rounded_allocations); print
TerraformOutput ==
    /\ script = "threshold" /\ pc = "analysed"
    /\ rounded_allocations' = SortForOutput(rounded_allocations)
    /\ output' = GenerateTerraformOutput(rounded_allocations)
    /\ pc' = "printed"
    /\ UNCHANGED <<config, allocations, total_allocated, warning>>

\* The check that all validators were allocated
Verify ==
    /\ script = "threshold" /\ pc = "printed"
    /\ warning' = WarningPrinted(total_allocated, TOTAL_VALIDATORS)
    /\ pc' = "done"
    /\ UNCHANGED <<config, allocations, rounded_allocations, output, total_allocated>>

NextThreshold ==
    ThresholdCalculate \/ ApplyRounding \/ PrintAnalysis \/ TerraformOutput \/ Verify

SpecThreshold == InitThreshold /\ [][NextThreshold]_vars

(***************************************************************************)
(* The renderers on arbitrary lists of allocations                         *)
(***************************************************************************)
MaxAllocations == 3

RenderedAllocations ==
    { [cl_name |-> id[1], el_name |-> "geth", node_type |-> id[2],
       machines |-> mv[1], validators |-> mv[2]] :
        id \in {<<"prysm", "default">>, <<"lighthouse", "default">>,
                <<"lighthouse", "super">>},
        mv \in {<<1, 2>>, <<2, 3>>, <<1, 0>>, <<1, -1>>, <<0, 2>>} }

AllocationLists == UNION {[1..n -> RenderedAllocations] : n \in 0..MaxAllocations}

InitRender ==
    /\ script \in {"simple", "threshold"}
    /\ TOTAL_VALIDATORS = ConfiguredTotal
    /\ MACHINE_COUNTS = ConfiguredMachineCounts
    /\ MACHINE_DISTRIBUTION = ConfiguredMachineDistribution
    /\ CL_CLIENTS = SimpleCL /\ EL_CLIENTS = SimpleEL
    /\ VALIDATOR_DISTRIBUTION = ConfiguredValidatorDistribution
    /\ \E list \in AllocationLists :
          IF script = "simple"
          THEN /\ allocations = list /\ rounded_allocations = <<>>
               /\ total_allocated = 0 /\ pc = "optimized"
          ELSE /\ allocations = <<>> /\ rounded_allocations = list
               /\ total_allocated = TotalAllocated(list) /\ pc = "analysed"
    /\ output = <<>> /\ warning = FALSE

NextRender == Output \/ TerraformOutput

SpecRender == InitRender /\ [][NextRender]_vars

(***************************************************************************)
(* Both mains on malformed configurations                                  *)
(***************************************************************************)
MalformedShareVectors == { <<100>>, <<50, 50>>, <<50>>, <<60, 60>>, <<150, -50>> }

MalformedDistributions ==
    { ConfiguredValidatorDistribution,
      [default |-> 50, full |-> 20, super |-> 10],
      [default |-> 120, full |-> -30, super |-> 10] }

MalformedTotals == {-BASE_VALIDATORS_PER_MACHINE, 0, BASE_VALIDATORS_PER_MACHINE, ConfiguredTotal}

InitMalformed ==
    /\ script \in {"simple", "threshold"}
    /\ TOTAL_VALIDATORS \in MalformedTotals
    /\ CL_CLIENTS \in {Table(CL_NAMES, w) : w \in MalformedShareVectors}
    /\ EL_CLIENTS \in {Table(EL_NAMES, w) : w \in MalformedShareVectors}
    /\ VALIDATOR_DISTRIBUTION \in MalformedDistributions
    /\ IF script = "simple"
       THEN /\ MACHINE_COUNTS \in {ConfiguredMachineCounts, [default |-> 2, full |-> 1, super |-> 0]}
            /\ MACHINE_DISTRIBUTION = NoMachineDistribution
       ELSE /\ MACHINE_COUNTS = NoMachineCounts
            /\ MACHINE_DISTRIBUTION \in
                  {ConfiguredMachineDistribution, [default |-> 80, full |-> 30, super |-> 5]}
    /\ ~ValidConfig
    /\ Start

NextMalformed ==
    \/ CalculateAllocations \/ Optimize \/ Output
    \/ ThresholdCalculate \/ ThresholdCalculateRaises
    \/ ApplyRounding \/ PrintAnalysis \/ TerraformOutput \/ Verify

SpecMalformed == InitMalformed /\ [][NextMalformed]_vars

(***************************************************************************)
(* Quantities the properties speak of                                      *)
(***************************************************************************)
\* The list main hands to the renderer
FinalAllocations == IF script = "simple" THEN allocations ELSE rounded_allocations

\* The apportionment is over (simple: after optimize; threshold: after rounding)
Apportioned ==
    \/ script = "simple" /\ pc \in {"optimized", "done"}
    \/ script = "threshold" /\ pc \in {"rounded", "analysed", "printed", "done"}

TierMachines(allocs, t) ==
    SumSeq([k \in 1..Len(allocs) |-> IF allocs[k].node_type = t THEN allocs[k].machines ELSE 0])

TierValidators(allocs, t) ==
    SumSeq([k \in 1..Len(allocs) |-> IF allocs[k].node_type = t THEN allocs[k].validators ELSE 0])

TierCount(allocs, t) == Cardinality({k \in 1..Len(allocs) : allocs[k].node_type = t})

\* A tier's machine target
MachineTarget(t) ==
    IF script = "simple" THEN MACHINE_COUNTS[t]
    ELSE TargetMachines(TOTAL_VALIDATORS, MACHINE_DISTRIBUTION, t)

\* A tier's validator target: TOTAL_VALIDATORS * share, floored
ValidatorTarget(t) == (TOTAL_VALIDATORS * VALIDATOR_DISTRIBUTION[t]) \div Scale

EmittedCount == SumSeq([i \in 1..Len(output) |-> output[i].count])

EmittedValidators ==
    SumSeq([i \in 1..Len(output) |-> output[i].validator_end - output[i].validator_start])

(***************************************************************************)
(* Properties                                                              *)
(***************************************************************************)
\* C1: split-calculator-simple.py, valid configuration: after
\* calculate_allocations the machines of every tier's allocations sum to
\* exactly MACHINE_COUNTS[tier].
C1_MachinesSumToCount ==
    (script = "simple" /\ pc # "main" /\ ValidConfig) =>
        \A t \in NodeTypeSet : TierMachines(allocations, t) = MACHINE_COUNTS[t]

\* C1 witness: calculate_allocations has run on a tier whose floors leave
\* machines for the second pass, and some cell also got a floor of 2 or more.
C1_Witness ==
    /\ script = "simple" /\ pc = "calculated" /\ ValidConfig
    /\ MACHINE_COUNTS["default"] = 5
    /\ AwardedExtra(SortedCombinations(5, CL_CLIENTS, EL_CLIENTS), 5) # {}
    /\ \E k \in 1..Len(allocations) :
          allocations[k].node_type = "default" /\ allocations[k].machines >= 2
    /\ TierMachines(allocations, "default") = 5

\* C2: split-calculator-simple.py, valid configuration: after
\* optimize_validator_distribution the validators of every tier with at
\* least one machine sum to exactly int(TOTAL_VALIDATORS * share).
C2_ValidatorsSumToTarget ==
    (script = "simple" /\ pc \in {"optimized", "done"} /\ ValidConfig) =>
        \A t \in NodeTypeSet :
            MACHINE_COUNTS[t] >= 1 =>
                TierValidators(allocations, t) = ValidatorTarget(t)

\* C2 witness: a tier whose validators did not sum to the target before
\* optimize_validator_distribution and do after it.
C2_Witness ==
    /\ script = "simple" /\ pc = "optimized" /\ ValidConfig
    /\ \E t \in NodeTypeSet :
          /\ MACHINE_COUNTS[t] >= 1
          /\ TierValidators(SimpleCalculateAllocations(TOTAL_VALIDATORS, MACHINE_COUNTS,
                 CL_CLIENTS, EL_CLIENTS, VALIDATOR_DISTRIBUTION), t) # ValidatorTarget(t)
          /\ TierValidators(allocations, t) = ValidatorTarget(t)
          /\ TierCount(allocations, t) >= 3

\* C3: the blocks a renderer emits, in its sort order (cl_name, el_name,
\* node_type), have non-overlapping gap-free validator ranges: the first
\* starts at 0, each later one starts where the previous one ends, and the
\* last ends at the sum of the validators of the emitted allocations.
C3_RangesContiguous ==
    pc \in {"done", "printed"} =>
        LET n == Len(output)
            emitted == {k \in 1..Len(FinalAllocations) :
                           /\ FinalAllocations[k].machines # 0
                           /\ FinalAllocations[k].validators > 0}
        IN  /\ n = Cardinality(emitted)
            /\ n > 0 => output[1].validator_start = 0
            /\ \A i \in 2..n : output[i].validator_start = output[i - 1].validator_end
            /\ \A i \in 1..n : output[i].validator_start < output[i].validator_end
            /\ \A i \in 2..n : SortKey(output[i - 1]) <= SortKey(output[i])
            /\ n > 0 => output[n].validator_end =
                   SumSeq([k \in 1..Len(FinalAllocations) |->
                              IF k \in emitted THEN FinalAllocations[k].validators ELSE 0])

\* C3 witness: a renderer has emitted two or more blocks from a list of
\* which it skipped an allocation.
C3_Witness ==
    /\ pc \in {"done", "printed"}
    /\ Len(output) >= 2
    /\ Len(FinalAllocations) > Len(output)
    /\ output[Len(output)].validator_end >= 4

\* C4: split-calculator.py, valid configuration: the machines of every
\* tier's rounded allocations sum to exactly
\* round(total_machines * MACHINE_DISTRIBUTION[tier]).
C4_ThresholdMachinesSumToTarget ==
    (script = "threshold" /\ Apportioned /\ ValidConfig) =>
        \A t \in NodeTypeSet :
            TierMachines(rounded_allocations, t) = MachineTarget(t)

\* C5: split-calculator.py, valid configuration: the validators of every
\* tier that keeps an allocation sum to exactly the tier's validator target.
C5_ThresholdValidatorsSumToTarget ==
    (script = "threshold" /\ Apportioned /\ ValidConfig) =>
        \A t \in NodeTypeSet :
            TierCount(rounded_allocations, t) >= 1 =>
                TierValidators(rounded_allocations, t) = ValidatorTarget(t)

\* C6: split-calculator-simple.py, valid configuration: after
\* optimize_validator_distribution every allocation has validators >= 0 and
\* machines >= 0.
C6_NoNegativeAllocation ==
    (script = "simple" /\ pc \in {"optimized", "done"} /\ ValidConfig) =>
        \A k \in 1..Len(allocations) :
            allocations[k].validators >= 0 /\ allocations[k].machines >= 0

\* C7: split-calculator-simple.py on its configured constants emits blocks
\* whose counts sum to 40 and whose validator ranges sum to 15000.
C7_ConfiguredTotals ==
    (IsConfigured /\ pc = "done") =>
        EmittedCount = 40 /\ EmittedValidators = 15000

\* C7 witness: main has finished on the configured constants, with blocks
\* in all three tiers.
C7_Witness ==
    /\ IsConfigured /\ pc = "done"
    /\ \A t \in NodeTypeSet : \E i \in 1..Len(output) : output[i].node_type = t

\* C8: with single-client CL and EL tables of weight 1.0, every tier with a
\* machine target >= 1 ends with exactly one allocation, holding the tier's
\* whole machine target and whole validator target (both scripts).
C8_SingleClientTakesAll ==
    (/\ Apportioned /\ ValidConfig
     /\ Len(CL_CLIENTS) = 1 /\ Len(EL_CLIENTS) = 1) =>
        \A t \in NodeTypeSet :
            MachineTarget(t) >= 1 =>
                /\ TierCount(FinalAllocations, t) = 1
                /\ TierMachines(FinalAllocations, t) = MachineTarget(t)
                /\ TierValidators(FinalAllocations, t) = ValidatorTarget(t)

\* C9: when a tier's machine target is 0 and its validator target is
\* positive, no block is emitted for the tier and, once main has finished,
\* either the emitted validators sum to the total of the tier targets or
\* the WARNING line was printed (both scripts).
C9_ZeroMachineTierNotDropped ==
    (ValidConfig /\ \E t \in NodeTypeSet : MachineTarget(t) = 0 /\ ValidatorTarget(t) > 0) =>
        /\ \A t \in NodeTypeSet :
              MachineTarget(t) = 0 => \A i \in 1..Len(output) : output[i].node_type # t
        /\ pc = "done" =>
              \/ EmittedValidators = ValidatorTarget("default") + ValidatorTarget("full")
                                        + ValidatorTarget("super")
              \/ warning

\* C10: a malformed configuration ends main in a fatal error before any
\* allocation is computed: main does not run to its end and emits no block
\* (both scripts).
C10_MalformedIsFatal ==
    ~ValidConfig => (pc # "done" /\ output = <<>>)

\* The same client table with its entries listed in the opposite order
Reversed(t) == [k \in 1..Len(t) |-> t[Len(t) + 1 - k]]

\* The (cl, el) cells of one node type that the second pass awards a machine
AwardedCells(type_machines, cl, el) ==
    LET sc == SortedCombinations(type_machines, cl, el)
    IN  {<<sc[k].cl, sc[k].el>> : k \in AwardedExtra(sc, type_machines)}

\* C11: split-calculator-simple.py: within a tier the extra machines go to
\* the cells that come first when ranked by descending fractional remainder,
\* then descending ideal value, then the lexical order of (cl, el); so the
\* set of awarded cells is the same when the CL_CLIENTS and EL_CLIENTS
\* tables list their clients in the opposite order.
C11_AwardsIndependentOfListingOrder ==
    (script = "simple" /\ pc # "main") =>
        \A t \in NodeTypeSet :
            MACHINE_COUNTS[t] > 0 =>
                LET sc == SortedCombinations(MACHINE_COUNTS[t], CL_CLIENTS, EL_CLIENTS)
                    awarded == AwardedExtra(sc, MACHINE_COUNTS[t])
                    rem(k) == sc[k].ideal - PyInt(sc[k].ideal, Scale2) * Scale2
                    lexical(j, k) ==
                        \/ NameRank(sc[j].cl) < NameRank(sc[k].cl)
                        \/ /\ sc[j].cl = sc[k].cl
                           /\ NameRank(sc[j].el) < NameRank(sc[k].el)
                    ahead(j, k) ==
                        \/ rem(j) > rem(k)
                        \/ rem(j) = rem(k) /\ sc[j].ideal > sc[k].ideal
                        \/ rem(j) = rem(k) /\ sc[j].ideal = sc[k].ideal /\ lexical(j, k)
                    ranked == {k \in 1..Len(sc) :
                                  Cardinality({j \in 1..Len(sc) : ahead(j, k)})
                                      < Cardinality(awarded)}
                IN  /\ awarded = ranked
                    /\ AwardedCells(MACHINE_COUNTS[t], CL_CLIENTS, EL_CLIENTS)
                         = AwardedCells(MACHINE_COUNTS[t], Reversed(CL_CLIENTS),
                                        Reversed(EL_CLIENTS))

\* machine_assignments of one node type, from the fractional allocations
TierAssignments(allocs, t) ==
    MachineAssignments(SortedTypeAllocations(ByType(allocs, t)),
                       TargetMachines(TOTAL_VALIDATORS, MACHINE_DISTRIBUTION, t))

\* sum of int(alloc.validators) over all the fractional allocations of a tier
TierIntValidators(allocs, t) ==
    SumSeq([k \in 1..Len(allocs) |->
               IF allocs[k].node_type = t
               THEN PyInt(allocs[k].validators[1], allocs[k].validators[2])
               ELSE 0])

\* C12: split-calculator.py, valid configuration: after
\* apply_intelligent_rounding, in every tier that keeps at least one
\* allocation, the validators of the final allocations sum to the sum of
\* int(raw validators) over all the cells of the tier, the cells left
\* without a machine included.
C12_OrphansConserved ==
    (/\ script = "threshold" /\ ValidConfig
     /\ pc \in {"rounded", "analysed", "printed", "done"}) =>
        \A t \in NodeTypeSet :
            TierCount(rounded_allocations, t) >= 1 =>
                TierValidators(rounded_allocations, t) = TierIntValidators(allocations, t)

\* C12 witness: a tier with a positive orphan pool that does not divide
\* evenly over its two or more surviving allocations.
C12_Witness ==
    /\ script = "threshold" /\ pc = "rounded" /\ ValidConfig
    /\ \E t \in NodeTypeSet :
          LET ma == TierAssignments(allocations, t)
              orphaned == OrphanedValidators(ma)
              kept == TierCount(rounded_allocations, t)
          IN  /\ kept >= 2
              /\ orphaned > 0
              /\ orphaned % kept # 0
              /\ TierValidators(rounded_allocations, t) = TierIntValidators(allocations, t)

\* The machines the allocations give a (cl, el) cell of a tier; a cell
\* without an allocation has none.
CellMachines(allocs, t, cl_name, el_name) ==
    LET hit == {k \in 1..Len(allocs) :
                   /\ allocs[k].node_type = t
                   /\ allocs[k].cl_name = cl_name /\ allocs[k].el_name = el_name}
    IN  IF hit = {} THEN 0 ELSE allocs[CHOOSE k \in hit : TRUE].machines

\* C13: split-calculator-simple.py, CL and EL weights each summing to 1:
\* when calculate_allocations returns, every cell of a tier has
\* floor(ideal) or floor(ideal) + 1 machines, where
\* ideal = tier machine count * cl weight * el weight, and a cell with a
\* larger ideal never has fewer machines than a cell of the same tier with a
\* smaller ideal.
C13_FloorOrFloorPlusOne ==
    (/\ script = "simple" /\ pc = "calculated"
     /\ ValidTable(CL_CLIENTS) /\ ValidTable(EL_CLIENTS)) =>
        \A t \in NodeTypeSet :
            LET cm == CombinationMachines(MACHINE_COUNTS[t], CL_CLIENTS, EL_CLIENTS)
                m == [k \in 1..Len(cm) |->
                         CellMachines(allocations, t, cm[k].cl, cm[k].el)]
            IN  /\ \A k \in 1..Len(cm) :
                      m[k] \in {PyInt(cm[k].ideal, Scale2), PyInt(cm[k].ideal, Scale2) + 1}
                /\ \A j, k \in 1..Len(cm) :
                      cm[j].ideal > cm[k].ideal => m[j] >= m[k]

\* C13 witness: calculate_allocations has run on a tier where one cell got
\* an extra machine, another cell with a positive remainder got none, and
\* some cell has a floor of 1 or more.
C13_Witness ==
    /\ script = "simple" /\ pc = "calculated"
    /\ ValidTable(CL_CLIENTS) /\ ValidTable(EL_CLIENTS)
    /\ \E t \in NodeTypeSet :
          LET cm == CombinationMachines(MACHINE_COUNTS[t], CL_CLIENTS, EL_CLIENTS)
              m(k) == CellMachines(allocations, t, cm[k].cl, cm[k].el)
              floor(k) == PyInt(cm[k].ideal, Scale2)
          IN  /\ \E k \in 1..Len(cm) : m(k) = floor(k) + 1
              /\ \E k \in 1..Len(cm) :
                    m(k) = floor(k) /\ cm[k].ideal > floor(k) * Scale2
              /\ \E k \in 1..Len(cm) : floor(k) >= 1

====
